---- MODULE Spec2Model ----
(***************************************************************************)
(* PySpur backend: the eval launcher (api/evals_management.py, launch_eval)*)
(* and the branch/solve/merge composite node                              *)
(* (nodes/llm/branch_solve_merge.py, BranchSolveMergeNode).                *)
(*                                                                         *)
(* Strings are TLA+ strings and the address format "<id>-<var>" is string  *)
(* concatenation, as the f-string of the source produces it.               *)
(***************************************************************************)
EXTENDS Integers, Sequences, FiniteSets, TLC

VARIABLES
    db,         \* WorkflowModel table: workflow id -> stored definition
    pc,         \* launch_eval: "idle" | "evaluating" | "done"
    request,    \* the EvalRunRequest being served
    steps,      \* statements of launch_eval executed for this request, in order
    leaf,       \* leaf_node_output_variables as last computed for this request
    response,   \* what the handler answered (status 0: nothing yet)
    evalCalls,  \* calls of prepare_and_evaluate_dataset made for this request
    resolutions,\* every value leaf_node_output_variables has had, over all requests,
                \* with whether the request's address was found in it
    exec,       \* BranchSolveMergeNode.__call__: per call, its position, locals and
                \* the sub-node invocations it has made, in order
    heap,       \* the objects the composite node refers to: reference -> config
                \* object or schema dict
    self,       \* the attributes of the BranchSolveMergeNode instance
    base        \* the caller's configuration as it was handed to __init__

evalVars == <<db, pc, request, steps, leaf, response, evalCalls, resolutions>>

nodeVars == <<heap, self, base>>

vars == <<db, pc, request, steps, leaf, response, evalCalls, resolutions, exec,
         heap, self, base>>

(***************************************************************************)
(* Bounds of the model.                                                    *)
(***************************************************************************)
MaxNodes == 2
MaxLinks == 1
MaxSubtasks == 2
MaxSolutions == 2

NodeIds == {"A", "A-b"}
OutputVariableLists == {<<>>, <<"x">>, <<"b-c">>, <<"x", "c">>}
WorkflowIds == {"w1", "w2"}
StoredWorkflowIds == {"w1"}
EvalNames == {"e1", "e2"}
SampleCounts == {0, 10}
Results == {"metrics"}
Calls == {"c1", "c2"}
Inputs == {"task"}
Tasks == {"t1", "t2"}
Answers == {"answer1", "answer2"}
SystemPrompts == {"", "You are a tutor."}
BranchPrompts == {"Please decompose the following task into multiple subtasks.", "Split."}
SolvePrompts == {"Please provide a detailed solution for the following subtask:", "Solve."}
MergePrompts ==
    {"Please combine the following solutions into a coherent and comprehensive final answer.",
     "Join."}
InputSchemas == {[task |-> "str"], [question |-> "str", context |-> "str"]}
OutputSchemas == {[answer |-> "str"], [answer |-> "str", score |-> "float"],
                  [subtasks |-> "list[str]"]}

SeqUpTo(S, n) == UNION {[1..k -> S] : k \in 0..n}

Range(s) == {s[i] : i \in DOMAIN s}

(***************************************************************************)
(* WorkflowDefinitionSchema as launch_eval reads it: nodes with an id and  *)
(* config["output_variables"], links with source_id and target_id.         *)
(***************************************************************************)
WorkflowNodes == [id : NodeIds, output_variables : OutputVariableLists]
WorkflowLinks == [source_id : NodeIds, target_id : NodeIds]
WorkflowDefinitions ==
    [nodes : SeqUpTo(WorkflowNodes, MaxNodes), links : SeqUpTo(WorkflowLinks, MaxLinks)]

\* f"{node.id}-{output_variable}"
Address(id, output_variable) == id \o "-" \o output_variable

RequestedAddresses ==
    {Address(i, v) : i \in NodeIds, v \in UNION {Range(l) : l \in OutputVariableLists}}
        \cup {"bogus"}

EvalRunRequest ==
    [eval_name : EvalNames, workflow_id : WorkflowIds,
     output_variable : RequestedAddresses, num_samples : SampleCounts]

NoRequest ==
    [eval_name |-> "", workflow_id |-> "", output_variable |-> "", num_samples |-> 0]

\* EVALS_DIR holds e1.yaml only
EVALS_DIR == {"e1"}

(***************************************************************************)
(* Leaf-output resolution, launch_eval lines 86-96.                        *)
(***************************************************************************)
all_source_ids(definition) == {l.source_id : l \in Range(definition.links)}

all_node_ids(definition) == {n.id : n \in Range(definition.nodes)}

leaf_nodes(definition) == all_node_ids(definition) \ all_source_ids(definition)

leaf_node_output_variables(definition) ==
    UNION {{Address(n.id, v) : v \in Range(n.output_variables)} :
              n \in {m \in Range(definition.nodes) : m.id \in leaf_nodes(definition)}}

(***************************************************************************)
(* WorkflowDefinitionSchema.model_validate: the schema class is not among  *)
(* the sources; what it accepts is taken from the data-model invariant     *)
(* that every link's source_id and target_id is a declared node id.        *)
(***************************************************************************)
model_validate_ok(definition) ==
    \A l \in Range(definition.links) :
        /\ l.source_id \in all_node_ids(definition)
        /\ l.target_id \in all_node_ids(definition)

(***************************************************************************)
(* Responses and exceptions.  An exception is a record; str(e) of an       *)
(* HTTPException is "<status>: <detail>".                                  *)
(***************************************************************************)
NoResponse == [status |-> 0, detail |-> "", results |-> ""]

HTTPException(status_code, detail) ==
    [status |-> status_code, detail |-> detail, results |-> ""]

ExcStr(e) ==
    IF e.status = 400 THEN "400: " \o e.detail ELSE e.detail

Success(results) == [status |-> 200, detail |-> "success", results |-> results]

\* raise HTTPException(status_code=400, detail=f"Invalid output variable '...'...")
InvalidOutputVariable(req) ==
    HTTPException(400, "Invalid output variable '" \o req.output_variable \o "'")

\* except Exception as e: raise HTTPException(500, f"Error launching eval: {e}")
Except(e) == HTTPException(500, "Error launching eval: " \o ExcStr(e))

Exception(text) == [status |-> -1, detail |-> text, results |-> ""]

(***************************************************************************)
(* launch_eval up to its only suspension point (the await of               *)
(* prepare_and_evaluate_dataset), as one outcome record.                   *)
(***************************************************************************)
Outcome(st, lf, resp, calls) ==
    [steps |-> st, leaf |-> lf, response |-> resp, evalCalls |-> calls,
     pc |-> IF resp = NoResponse THEN "evaluating" ELSE "done"]

\* lines 98-110: the membership check, then the evaluation is started
CheckAndEvaluateNarrowed(req, st, lf) ==
    IF req.output_variable \notin lf
    THEN Outcome(st \o <<"check">>, lf, Except(InvalidOutputVariable(req)), <<>>)
    ELSE Outcome(st \o <<"check", "evaluate">>, {req.output_variable}, NoResponse,
                 <<[eval_config |-> req.eval_name, num_samples |-> req.num_samples,
                    output_variable |-> req.output_variable]>>)

CheckAndEvaluate(req, st, lf) ==
    IF req.output_variable \notin lf
    THEN Outcome(st \o <<"check">>, lf, Except(InvalidOutputVariable(req)), <<>>)
    ELSE Outcome(st \o <<"check", "evaluate">>, lf, NoResponse,
                 <<[eval_config |-> req.eval_name, num_samples |-> req.num_samples,
                    output_variable |-> req.output_variable]>>)

\* lines 78-110: the try block
TryBlockNoValidation(req, loadOk) ==
    IF ~loadOk
    THEN Outcome(<<"query", "exists", "load">>, {}, Except(Exception("yaml error")), <<>>)
    ELSE CheckAndEvaluate(req, <<"query", "exists", "load", "validate", "resolve">>,
                          leaf_node_output_variables(db[req.workflow_id]))

TryBlock(req, loadOk) ==
    IF ~loadOk
    THEN Outcome(<<"query", "exists", "load">>, {}, Except(Exception("yaml error")), <<>>)
    ELSE IF ~model_validate_ok(db[req.workflow_id])
    THEN Outcome(<<"query", "exists", "load", "validate">>, {},
                 Except(Exception("validation error")), <<>>)
    ELSE CheckAndEvaluate(req, <<"query", "exists", "load", "validate", "resolve">>,
                          leaf_node_output_variables(db[req.workflow_id]))

\* lines 67-76: the two lookups made before the try block
PreconditionsSwapped(req, loadOk) ==
    IF req.eval_name \notin EVALS_DIR
    THEN Outcome(<<"exists">>, {},
                 HTTPException(404, "Eval configuration not found"), <<>>)
    ELSE IF req.workflow_id \notin DOMAIN db
    THEN Outcome(<<"exists", "query">>, {}, HTTPException(404, "Workflow not found"), <<>>)
    ELSE TryBlock(req, loadOk)

Preconditions(req, loadOk) ==
    IF req.workflow_id \notin DOMAIN db
    THEN Outcome(<<"query">>, {}, HTTPException(404, "Workflow not found"), <<>>)
    ELSE IF req.eval_name \notin EVALS_DIR
    THEN Outcome(<<"query", "exists">>, {},
                 HTTPException(404, "Eval configuration not found"), <<>>)
    ELSE TryBlock(req, loadOk)

(***************************************************************************)
(* The composite node.  Its three sub-nodes are single-call reasoning      *)
(* nodes (AdvancedLLMNode): given an input record, the engine answers with *)
(* some record of the node's output schema, or the call raises.            *)
(***************************************************************************)
\* the solution an echo Solve gives for one subtask
Solved(t) == "solved:" \o t

Solutions == {Solved(t) : t \in Tasks}

\* output_schema = {"subtasks": "list[str]"}
BranchOutputs == [subtasks : SeqUpTo(Tasks, MaxSubtasks)]

\* output_schema = {"subtask_solutions": "list[str]"}
SolveOutputs == [subtask_solutions : SeqUpTo(Solutions, MaxSolutions)]

\* the base output schema
MergeOutputs == [answer : Answers]

NoSubtasks == [subtasks |-> <<>>]
NoSolutions == [subtask_solutions |-> <<>>]
NoOutput == [answer |-> ""]

\* one sub-node invocation: it is started with an input, and ends or raises
Start(node, input) == [node |-> node, ev |-> "start", data |-> input]
End(node, output) == [node |-> node, ev |-> "end", data |-> output]
Raise(node) == [node |-> node, ev |-> "raise", data |-> [error |-> node]]

\* the locals of one __call__ before line 58
NotCalled ==
    [pc |-> "idle", subtasks |-> NoSubtasks, solutions |-> NoSolutions,
     final_output |-> NoOutput, result |-> NoOutput, log |-> <<>>]

(***************************************************************************)
(* Construction of the composite node, BranchSolveMergeNode.__init__.      *)
(* Config objects and schema dicts live on a heap and are held by          *)
(* reference, so that a copy and an alias differ.                          *)
(***************************************************************************)
\* BranchSolveMergeNodeConfig, lines 12-18, by value
BranchSolveMergeNodeConfig ==
    [system_prompt : SystemPrompts, branch_prompt : BranchPrompts,
     solve_prompt : SolvePrompts, merge_prompt : MergePrompts,
     input_schema : InputSchemas, output_schema : OutputSchemas]

\* the defaults of lines 13-18
DefaultConfig ==
    [system_prompt |-> "",
     branch_prompt |-> "Please decompose the following task into multiple subtasks.",
     solve_prompt |-> "Please provide a detailed solution for the following subtask:",
     merge_prompt |->
         "Please combine the following solutions into a coherent and comprehensive final answer.",
     input_schema |-> [task |-> "str"],
     output_schema |-> [answer |-> "str"]]

Store(h, ref, obj) == [x \in DOMAIN h \cup {ref} |-> IF x = ref THEN obj ELSE h[x]]

SetAttr(h, ref, attr, value) == [h EXCEPT ![ref] = [@ EXCEPT ![attr] = value]]

\* the caller's config object, with its two schema dicts
CallerHeap(cfg) ==
    Store(Store(Store(<<>>, "config.input_schema", cfg.input_schema),
                "config.output_schema", cfg.output_schema),
          "config",
          [cfg EXCEPT !.input_schema = "config.input_schema",
                      !.output_schema = "config.output_schema"])

\* the configuration at ref, by value
ConfigValue(h, ref) ==
    [h[ref] EXCEPT !.input_schema = h[h[ref].input_schema],
                   !.output_schema = h[h[ref].output_schema]]

\* AdvancedLLMNodeConfig.model_validate(config.model_dump()): a new config
\* object, with new schema dicts, holding the values of src; gives the heap
\* and the reference of the new object
model_validate_shared(h, src, dst) == [heap |-> h, ref |-> src]

model_validate_dump(h, src, dst) ==
    [heap |-> Store(Store(Store(h, dst \o ".input_schema", h[h[src].input_schema]),
                          dst \o ".output_schema", h[h[src].output_schema]),
                    dst,
                    [h[src] EXCEPT !.input_schema = dst \o ".input_schema",
                                   !.output_schema = dst \o ".output_schema"]),
     ref |-> dst]

\* AdvancedLLMNode(config): the node keeps its config and derives its input
\* and output models from the config's schemas
AdvancedLLMNode(h, cfg) ==
    [config |-> cfg, input_model |-> h[h[cfg].input_schema],
     output_model |-> h[h[cfg].output_schema]]

\* lines 34-36
branch_config(h) ==
    LET c  == model_validate_dump(h, "config", "branch_config")
        h1 == Store(c.heap, "subtasks_schema", [subtasks |-> "list[str]"])
        h2 == SetAttr(h1, c.ref, "output_schema", "subtasks_schema")
    IN  [heap |-> SetAttr(h2, c.ref, "system_prompt", h2["config"].branch_prompt),
         ref |-> c.ref]

\* lines 40-43
solve_config(h, branch) ==
    LET c  == model_validate_dump(h, "config", "solve_config")
        h1 == SetAttr(c.heap, c.ref, "system_prompt", c.heap["config"].solve_prompt)
        h2 == SetAttr(h1, c.ref, "input_schema", h1[branch].output_schema)
        h3 == Store(h2, "subtask_solutions_schema", [subtask_solutions |-> "list[str]"])
    IN  [heap |-> SetAttr(h3, c.ref, "output_schema", "subtask_solutions_schema"),
         ref |-> c.ref]

\* lines 47-49
merge_config_unwired(h, solve) ==
    LET c  == model_validate_dump(h, "config", "merge_config")
    IN  [heap |-> SetAttr(c.heap, c.ref, "system_prompt", c.heap["config"].merge_prompt),
         ref |-> c.ref]

merge_config(h, solve) ==
    LET c  == model_validate_dump(h, "config", "merge_config")
        h1 == SetAttr(c.heap, c.ref, "system_prompt", c.heap["config"].merge_prompt)
    IN  [heap |-> SetAttr(h1, c.ref, "input_schema", h1[solve].output_schema),
         ref |-> c.ref]

\* __init__, lines 30-54: the heap and the instance attributes it leaves
Constructed(cfg) ==
    LET b  == branch_config(CallerHeap(cfg))
        bn == AdvancedLLMNode(b.heap, b.ref)
        s  == solve_config(b.heap, b.ref)
        sn == AdvancedLLMNode(s.heap, s.ref)
        m  == merge_config(s.heap, s.ref)
        mn == AdvancedLLMNode(m.heap, m.ref)
    IN  [heap |-> m.heap,
         node |-> [constructed |-> TRUE, config |-> "config",
                   _branch_node |-> bn, _solve_node |-> sn, _merge_node |-> mn,
                   input_model |-> bn.input_model, output_model |-> mn.output_model]]

\* the instance that calls are made on: BranchSolveMergeNode(config) with the
\* default configuration
DefaultNode == Constructed(DefaultConfig)

NoModel == [none |-> ""]

NoNode == [config |-> "", input_model |-> NoModel, output_model |-> NoModel]

NotConstructed ==
    [constructed |-> FALSE, config |-> "config",
     _branch_node |-> NoNode, _solve_node |-> NoNode, _merge_node |-> NoNode,
     input_model |-> NoModel, output_model |-> NoModel]

(***************************************************************************)
(* Actions of the eval launcher.                                           *)
(***************************************************************************)
InitEval ==
    /\ db \in [StoredWorkflowIds -> WorkflowDefinitions]
    /\ pc = "idle"
    /\ request = NoRequest
    /\ steps = <<>>
    /\ leaf = {}
    /\ response = NoResponse
    /\ evalCalls = <<>>
    /\ resolutions = {}
    /\ exec = [c \in Calls |-> NotCalled]
    /\ heap = CallerHeap(DefaultConfig)
    /\ self = NotConstructed
    /\ base = DefaultConfig

\* POST /launch/ : lines 59-110, up to the await
launch_eval(req, loadOk) ==
    /\ pc = "idle"
    /\ LET o == Preconditions(req, loadOk) IN
        /\ request' = req
        /\ steps' = o.steps
        /\ leaf' = o.leaf
        /\ response' = o.response
        /\ evalCalls' = o.evalCalls
        /\ pc' = o.pc
        /\ resolutions' = IF "resolve" \in Range(o.steps)
                           THEN resolutions \cup
                                    {[leaf |-> o.leaf, found |-> req.output_variable \in o.leaf]}
                           ELSE resolutions
    /\ UNCHANGED <<db, exec, nodeVars>>

\* lines 105-115: prepare_and_evaluate_dataset returns
EvaluationReturns(results) ==
    /\ pc = "evaluating"
    /\ response' = Success(results)
    /\ steps' = steps \o <<"return">>
    /\ pc' = "done"
    /\ UNCHANGED <<db, request, leaf, evalCalls, resolutions, exec, nodeVars>>

\* lines 105-117: prepare_and_evaluate_dataset raises
EvaluationRaisesSwallowed ==
    /\ pc = "evaluating"
    /\ response' = Success("")
    /\ steps' = steps \o <<"except">>
    /\ pc' = "done"
    /\ UNCHANGED <<db, request, leaf, evalCalls, resolutions, exec, nodeVars>>

EvaluationRaises ==
    /\ pc = "evaluating"
    /\ response' = Except(Exception("evaluation error"))
    /\ steps' = steps \o <<"except">>
    /\ pc' = "done"
    /\ UNCHANGED <<db, request, leaf, evalCalls, resolutions, exec, nodeVars>>

\* the response has been sent; the server is ready for the next request
Respond ==
    /\ pc = "done"
    /\ pc' = "idle"
    /\ request' = NoRequest
    /\ steps' = <<>>
    /\ leaf' = {}
    /\ response' = NoResponse
    /\ evalCalls' = <<>>
    /\ UNCHANGED <<db, resolutions, exec, nodeVars>>

NextEval ==
    \/ Respond
    \/ \E req \in EvalRunRequest, loadOk \in BOOLEAN : launch_eval(req, loadOk)
    \/ \E results \in Results : EvaluationReturns(results)
    \/ EvaluationRaises

SpecEval == InitEval /\ [][NextEval]_vars

(***************************************************************************)
(* Actions of the composite node: BranchSolveMergeNode.__call__ suspends   *)
(* at each of its three awaits; a sub-node call either returns an output   *)
(* record or raises.                                                       *)
(***************************************************************************)
InitBSM ==
    /\ db = [w \in StoredWorkflowIds |-> [nodes |-> <<>>, links |-> <<>>]]
    /\ pc = "idle"
    /\ request = NoRequest
    /\ steps = <<>>
    /\ leaf = {}
    /\ response = NoResponse
    /\ evalCalls = <<>>
    /\ resolutions = {}
    /\ exec = [c \in Calls |-> NotCalled]
    /\ heap = DefaultNode.heap
    /\ self = DefaultNode.node
    /\ base = DefaultConfig

\* line 58, call: subtasks = await self._branch_node(input_data)
call(c, input_data) ==
    /\ exec[c].pc = "idle"
    /\ exec' = [exec EXCEPT ![c].pc = "branch",
                             ![c].log = <<Start("branch", [task |-> input_data])>>]
    /\ UNCHANGED <<evalVars, nodeVars>>

\* line 58 completes, line 61 calls: solutions = await self._solve_node(subtasks)
branch_returns_unawaited(c, out) ==
    /\ exec[c].pc = "branch"
    /\ exec' = [exec EXCEPT ![c].pc = "merge",
                             ![c].subtasks = out,
                             ![c].log = @ \o <<End("branch", out), Start("solve", out),
                                               Start("merge", NoSolutions)>>]
    /\ UNCHANGED <<evalVars, nodeVars>>

branch_returns(c, out) ==
    /\ exec[c].pc = "branch"
    /\ exec' = [exec EXCEPT ![c].pc = "solve",
                             ![c].subtasks = out,
                             ![c].log = @ \o <<End("branch", out), Start("solve", out)>>]
    /\ UNCHANGED <<evalVars, nodeVars>>

\* line 58 raises: the exception leaves __call__
branch_raises_swallowed(c) ==
    /\ exec[c].pc = "branch"
    /\ exec' = [exec EXCEPT ![c].pc = "solve",
                             ![c].log = @ \o <<Raise("branch"), Start("solve", NoSubtasks)>>]
    /\ UNCHANGED <<evalVars, nodeVars>>

branch_raises(c) ==
    /\ exec[c].pc = "branch"
    /\ exec' = [exec EXCEPT ![c].pc = "raised",
                             ![c].log = @ \o <<Raise("branch")>>]
    /\ UNCHANGED <<evalVars, nodeVars>>

\* line 61 completes, line 64 calls: final_output = await self._merge_node(solutions)
solve_returns_shared(c, out) ==
    /\ exec[c].pc = "solve"
    /\ exec' = [d \in Calls |->
                   IF d = c
                   THEN [exec[c] EXCEPT !.pc = "merge",
                                        !.solutions = out,
                                        !.log = @ \o <<End("solve", out), Start("merge", out)>>]
                   ELSE [exec[d] EXCEPT !.solutions = out]]
    /\ UNCHANGED <<evalVars, nodeVars>>

solve_returns(c, out) ==
    /\ exec[c].pc = "solve"
    /\ exec' = [exec EXCEPT ![c].pc = "merge",
                             ![c].solutions = out,
                             ![c].log = @ \o <<End("solve", out), Start("merge", out)>>]
    /\ UNCHANGED <<evalVars, nodeVars>>

\* line 61 raises: the exception leaves __call__
solve_raises_swallowed(c) ==
    /\ exec[c].pc = "solve"
    /\ exec' = [exec EXCEPT ![c].pc = "merge",
                             ![c].log = @ \o <<Raise("solve"), Start("merge", NoSolutions)>>]
    /\ UNCHANGED <<evalVars, nodeVars>>

solve_raises(c) ==
    /\ exec[c].pc = "solve"
    /\ exec' = [exec EXCEPT ![c].pc = "raised",
                             ![c].log = @ \o <<Raise("solve")>>]
    /\ UNCHANGED <<evalVars, nodeVars>>

\* line 64 completes, line 66: return final_output
merge_returns(c, out) ==
    /\ exec[c].pc = "merge"
    /\ exec' = [exec EXCEPT ![c].pc = "returned",
                             ![c].final_output = out,
                             ![c].result = out,
                             ![c].log = @ \o <<End("merge", out)>>]
    /\ UNCHANGED <<evalVars, nodeVars>>

\* line 64 raises: the exception leaves __call__
merge_raises(c) ==
    /\ exec[c].pc = "merge"
    /\ exec' = [exec EXCEPT ![c].pc = "raised",
                             ![c].log = @ \o <<Raise("merge")>>]
    /\ UNCHANGED <<evalVars, nodeVars>>

NextBSM ==
    \/ \E c \in Calls, input_data \in Inputs : call(c, input_data)
    \/ \E c \in Calls, out \in BranchOutputs : branch_returns(c, out)
    \/ \E c \in Calls : branch_raises(c)
    \/ \E c \in Calls, out \in SolveOutputs : solve_returns(c, out)
    \/ \E c \in Calls : solve_raises(c)
    \/ \E c \in Calls, out \in MergeOutputs : merge_returns(c, out)
    \/ \E c \in Calls : merge_raises(c)

SpecBSM == InitBSM /\ [][NextBSM]_vars

(***************************************************************************)
(* Construction of a composite node from a caller's configuration.         *)
(***************************************************************************)
InitNode ==
    /\ db = [w \in StoredWorkflowIds |-> [nodes |-> <<>>, links |-> <<>>]]
    /\ pc = "idle"
    /\ request = NoRequest
    /\ steps = <<>>
    /\ leaf = {}
    /\ response = NoResponse
    /\ evalCalls = <<>>
    /\ resolutions = {}
    /\ exec = [c \in Calls |-> NotCalled]
    /\ base \in BranchSolveMergeNodeConfig
    /\ heap = CallerHeap(base)
    /\ self = NotConstructed

\* BranchSolveMergeNode(config), lines 30-54
init ==
    /\ ~self.constructed
    /\ heap' = Constructed(ConfigValue(heap, "config")).heap
    /\ self' = Constructed(ConfigValue(heap, "config")).node
    /\ UNCHANGED <<evalVars, exec, base>>

NextNode == init

SpecNode == InitNode /\ [][NextNode]_vars

(***************************************************************************)
(* Claims about the eval launcher, checked under SpecEval.                 *)
(***************************************************************************)
\* the definition launch_eval works on, once the workflow was found
Definition == db[request.workflow_id]

WorkflowFound == pc # "idle" /\ request.workflow_id \in DOMAIN db

Resolved == WorkflowFound /\ "resolve" \in Range(steps)

IsSource(d, id) == \E l \in Range(d.links) : l.source_id = id

\* the addresses "<id>-<v>" of the declared output variables of the nodes in N
AddressesOf(N) == UNION {{Address(n.id, v) : v \in Range(n.output_variables)} : n \in N}

SourceNodes(d) == {n \in Range(d.nodes) : IsSource(d, n.id)}

NonSourceNodes(d) == {n \in Range(d.nodes) : ~IsSource(d, n.id)}

\* C1: the resolved address set contains no address of a node that is the
\* source of some link, contains "<id>-<v>" for every declared output variable
\* v of every node that is the source of no link, and is {"A-x"} for the graph
\* with no links and the single node A declaring x.
C1_LeafResolution ==
    Resolved =>
        /\ leaf \cap AddressesOf(SourceNodes(Definition)) = {}
        /\ AddressesOf(NonSourceNodes(Definition)) \subseteq leaf
        /\ (Definition = [nodes |-> <<[id |-> "A", output_variables |-> <<"x">>]>>,
                          links |-> <<>>]) => leaf = {"A-x"}

\* What does hold of the resolution: the set is exactly the addresses of the
\* nodes that are the source of no link.
LeafResolutionExact ==
    Resolved => leaf = AddressesOf(NonSourceNodes(Definition))

\* the requested address is "<X>-<y>" for a declared output y of a node X that
\* has an outgoing link
NamesNonLeaf == WorkflowFound /\ request.output_variable \in AddressesOf(SourceNodes(Definition))

AbsentFromResolved ==
    WorkflowFound /\ request.output_variable \notin AddressesOf(NonSourceNodes(Definition))

EvaluationStarted == evalCalls # <<>> \/ "evaluate" \in Range(steps)

Failed == pc = "done" /\ response.status >= 400

\* C2: a request whose address names a node with an outgoing link, or is
\* otherwise absent from the resolved set, fails, and the evaluation is never
\* started for it.
C2_RejectionExcludesEvaluation ==
    (NamesNonLeaf \/ AbsentFromResolved) => (Failed /\ ~EvaluationStarted)

\* What does hold: a request whose address is absent from the resolved set
\* fails without the evaluation being started.
AbsentNeverEvaluated ==
    AbsentFromResolved => (Failed /\ ~EvaluationStarted)

\* the membership check of lines 98-102 rejected the request
RejectedByCheck == pc = "done" /\ Resolved /\ request.output_variable \notin leaf

\* C3: a request whose address is not in the resolved set is answered with
\* status 400, 'Invalid output variable', distinguishable from the status 500,
\* 'Error launching eval', of a failed evaluation.
C3_ValidationFailureIs400 ==
    RejectedByCheck =>
        /\ response.status = 400
        /\ response.detail = InvalidOutputVariable(request).detail
        /\ response # Except(Exception("evaluation error"))

\* some link names a node id that no declared node has
DanglingLink(d) ==
    \E l \in Range(d.links) :
        \/ \A n \in Range(d.nodes) : n.id # l.source_id
        \/ \A n \in Range(d.nodes) : n.id # l.target_id

C11_AddressesUnique ==
    Resolved =>
        \A n1, n2 \in NonSourceNodes(Definition) :
            \A v1 \in Range(n1.output_variables), v2 \in Range(n2.output_variables) :
                <<n1.id, v1>> # <<n2.id, v2>> => Address(n1.id, v1) # Address(n2.id, v2)

C15_PositiveSampleCount ==
    \A i \in DOMAIN evalCalls : evalCalls[i].num_samples > 0

\* What does hold: the evaluation is started with the request's num_samples
\* as given.
SampleCountPassedThrough ==
    \A i \in DOMAIN evalCalls : evalCalls[i].num_samples = request.num_samples

\* C17: an unknown workflow id gives 404 'Workflow not found' without the eval
\* configuration being looked up; a known workflow with a missing eval file
\* gives 404 'Eval configuration not found'; neither resolves nor evaluates.
C17_PreconditionOrder ==
    /\ (pc # "idle" /\ request.workflow_id \notin DOMAIN db) =>
          /\ pc = "done"
          /\ response = HTTPException(404, "Workflow not found")
          /\ steps = <<"query">>
          /\ leaf = {} /\ evalCalls = <<>>
    /\ (WorkflowFound /\ request.eval_name \notin EVALS_DIR) =>
          /\ pc = "done"
          /\ response = HTTPException(404, "Eval configuration not found")
          /\ steps = <<"query", "exists">>
          /\ leaf = {} /\ evalCalls = <<>>

C17_Witness ==
    /\ pc = "done"
    /\ request.workflow_id \notin DOMAIN db
    /\ request.eval_name \notin EVALS_DIR
    /\ response.status = 404

\* C18: the success response is given only after exactly one call of
\* prepare_and_evaluate_dataset, made with the validated address and the
\* request's num_samples, has returned; an evaluation that raises gives
\* status 500 and never the success response.
C18_SuccessOnlyAfterEvaluation ==
    /\ response.status = 200 =>
          /\ Len(evalCalls) = 1
          /\ evalCalls[1].output_variable = request.output_variable
          /\ evalCalls[1].output_variable \in leaf
          /\ evalCalls[1].num_samples = request.num_samples
          /\ steps[Len(steps)] = "return"
          /\ "except" \notin Range(steps)
          /\ response.results \in Results
    /\ "except" \in Range(steps) =>
          /\ response.status = 500
          /\ response.results = ""

C18_Witness ==
    /\ pc = "done"
    /\ "except" \in Range(steps)
    /\ Len(evalCalls) = 1
    /\ response.status = 500

(***************************************************************************)
(* Claims about the composite node, checked under SpecBSM.                 *)
(***************************************************************************)
Log(c) == exec[c].log

\* positions in the call's log of the events ev of sub-node node
Events(c, node, ev) == {i \in DOMAIN Log(c) : Log(c)[i].node = node /\ Log(c)[i].ev = ev}

\* the i-th event, in order, among the positions P
Nth(P, i) == CHOOSE p \in P : Cardinality({q \in P : q <= p}) = i

BranchReturned(c) == Events(c, "branch", "end") # {}

\* the subtasks list Branch returned
SubtasksOf(c) == exec[c].subtasks.subtasks

\* C4: the subtask_solutions passed to Merge has the length of subtasks and its
\* i-th element is the solution of the i-th subtask.
C4_SolutionsMatchSubtasks ==
    \A c \in Calls : \A m \in Events(c, "merge", "start") :
        LET passed == Log(c)[m].data.subtask_solutions IN
            /\ Len(passed) = Len(SubtasksOf(c))
            /\ \A i \in DOMAIN passed : passed[i] = Solved(SubtasksOf(c)[i])

\* C5: once Branch has returned, Solve is invoked exactly once per element of
\* subtasks, the i-th invocation receiving the i-th subtask alone.
C5_OneSolvePerSubtask ==
    \A c \in Calls : BranchReturned(c) =>
        LET starts == Events(c, "solve", "start") IN
            /\ Cardinality(starts) = Len(SubtasksOf(c))
            /\ \A i \in 1..Cardinality(starts) :
                   Log(c)[Nth(starts, i)].data = [subtasks |-> <<SubtasksOf(c)[i]>>]

\* C6: when Branch returns an empty subtasks list, Solve is not invoked, Merge
\* is invoked with the empty subtask_solutions, and no Solve failure fails the
\* call.
C6_EmptySubtasks ==
    \A c \in Calls : (BranchReturned(c) /\ SubtasksOf(c) = <<>>) =>
        /\ Events(c, "solve", "start") = {}
        /\ Events(c, "solve", "raise") = {}
        /\ \E m \in Events(c, "merge", "start") : Log(c)[m].data = NoSolutions

\* C7: if a Solve invocation fails, the call fails and Merge is never invoked
\* in it.
C7_SolveFailureFailsCall ==
    \A c \in Calls : Events(c, "solve", "raise") # {} =>
        /\ exec[c].pc = "raised"
        /\ Events(c, "merge", "start") = {}
        /\ exec[c].result = NoOutput

C7_Witness ==
    \E c, d \in Calls :
        /\ c # d
        /\ Events(c, "solve", "raise") # {}
        /\ exec[c].pc = "raised"
        /\ Len(SubtasksOf(c)) = MaxSubtasks
        /\ exec[d].pc = "returned"

\* C8: if the Branch invocation fails, the call fails, returns no result, and
\* neither Solve nor Merge is invoked in it.
C8_BranchFailureFailsCall ==
    \A c \in Calls : Events(c, "branch", "raise") # {} =>
        /\ exec[c].pc = "raised"
        /\ exec[c].result = NoOutput
        /\ Events(c, "solve", "start") = {}
        /\ Events(c, "merge", "start") = {}

C8_Witness ==
    \E c, d \in Calls :
        /\ c # d
        /\ Events(c, "branch", "raise") # {}
        /\ exec[c].pc = "raised"
        /\ exec[d].pc = "merge"

\* the invocations of sub-node node started before position p that have
\* neither ended nor raised before p
Outstanding(c, node, p) ==
    LET before(ev) == {i \in 1..(p - 1) : Log(c)[i].node = node /\ Log(c)[i].ev = ev}
    IN  Cardinality(before("start"))
            > Cardinality(before("end")) + Cardinality(before("raise"))

\* C9: within one call, Branch has completed before any Solve invocation
\* starts, every Solve invocation has completed before Merge starts, and no
\* Solve invocation starts once Merge has.
C9_StagesStrictlyOrdered ==
    \A c \in Calls :
        /\ \A s \in Events(c, "solve", "start") :
               /\ \E b \in Events(c, "branch", "end") : b < s
               /\ ~Outstanding(c, "branch", s)
        /\ \A m \in Events(c, "merge", "start") :
               /\ ~Outstanding(c, "solve", m)
               /\ ~Outstanding(c, "branch", m)
               /\ \A s \in Events(c, "solve", "start") : s < m

C9_Witness ==
    \E c, d \in Calls :
        /\ c # d
        /\ exec[c].pc = "returned"
        /\ Cardinality(Events(c, "solve", "end")) = 1
        /\ exec[d].pc = "solve"

\* What of C16 the code keeps: a call that returns a value returns exactly the
\* output of its single Merge invocation, which was made on the output of the
\* completed Solve call; a call that has not returned, and so one that failed
\* at any stage, has given no record.
ReturnsSingleMergeOutput ==
    \A c \in Calls :
        /\ exec[c].pc = "returned" =>
              /\ Cardinality(Events(c, "merge", "start")) = 1
              /\ Cardinality(Events(c, "merge", "end")) = 1
              /\ \A e \in Events(c, "merge", "end") : exec[c].result = Log(c)[e].data
              /\ \A m \in Events(c, "merge", "start") :
                     \E e \in Events(c, "solve", "end") :
                         e < m /\ Log(c)[m].data = Log(c)[e].data
              /\ exec[c].result \in MergeOutputs
        /\ exec[c].pc # "returned" => exec[c].result = NoOutput

\* the list holds one solution for every subtask of the call, in order
FullyAssembled(c, list) ==
    /\ Len(list) = Len(SubtasksOf(c))
    /\ \A i \in DOMAIN list : list[i] = Solved(SubtasksOf(c)[i])

\* C16: a call that returns a value returns exactly the output of its single
\* Merge invocation, and that invocation was made on the fully assembled
\* subtask_solutions, one solution for every subtask in order; a call that
\* failed at any stage returns no record at all.
C16_ReturnsMergeOutput ==
    /\ ReturnsSingleMergeOutput
    /\ \A c \in Calls : exec[c].pc = "returned" =>
           \A m \in Events(c, "merge", "start") :
               FullyAssembled(c, Log(c)[m].data.subtask_solutions)

\* the output a call holds from a sub-node: what that sub-node returned to this
\* call, and nothing before it has
Held(c, node, none) ==
    IF Events(c, node, "end") = {} THEN {none}
    ELSE {Log(c)[e].data : e \in Events(c, node, "end")}

\* the record of the call is the one it has when it runs alone: each stage
\* was started on what the stage before gave to this call
RunsAlone(c) ==
    LET fromBranch == Held(c, "branch", NoSubtasks)
        fromSolve  == Held(c, "solve", NoSolutions)
        fromMerge  == Held(c, "merge", NoOutput)
    IN  /\ {exec[c].subtasks} = fromBranch
        /\ {exec[c].solutions} = fromSolve
        /\ {exec[c].final_output} = fromMerge
        /\ \A s \in Events(c, "solve", "start") : {Log(c)[s].data} = fromBranch
        /\ \A m \in Events(c, "merge", "start") : {Log(c)[m].data} = fromSolve
        /\ exec[c].pc = "returned" => exec[c].result = exec[c].final_output

\* C14: no step of a call changes the instance (its config, its three
\* sub-nodes, its input and output types, and the objects they refer to), and
\* however two calls on the instance interleave, each holds the record it
\* has when it runs alone.
C14_CallsDoNotInterfere ==
    /\ heap = DefaultNode.heap
    /\ self = DefaultNode.node
    /\ \A c \in Calls : RunsAlone(c)

C14_Witness ==
    \E c, d \in Calls :
        /\ exec[c].pc = "merge"
        /\ exec[d].pc = "solve"
        /\ Len(SubtasksOf(c)) = MaxSubtasks
        /\ SubtasksOf(d) # SubtasksOf(c)
        /\ Len(exec[c].solutions.subtask_solutions) = 1

(***************************************************************************)
(* Claims about the construction of the composite node, checked under      *)
(* SpecNode.                                                               *)
(***************************************************************************)
\* the schema dict a config object refers to
Schema(cfg, attr) == heap[heap[cfg][attr]]

branch == self._branch_node.config

solve == self._solve_node.config

merge == self._merge_node.config

\* C13: after construction from any base configuration, Branch takes the
\* base input schema and gives {subtasks: list[str]}; Solve takes Branch's
\* output schema and gives {subtask_solutions: list[str]}; Merge takes Solve's
\* output schema and gives the base output schema; the composite's input type
\* is Branch's and its output type is Merge's.
C13_SchemasThreaded ==
    self.constructed =>
        /\ Schema(branch, "input_schema") = base.input_schema
        /\ Schema(branch, "output_schema") = [subtasks |-> "list[str]"]
        /\ Schema(solve, "input_schema") = Schema(branch, "output_schema")
        /\ Schema(solve, "output_schema") = [subtask_solutions |-> "list[str]"]
        /\ Schema(merge, "input_schema") = Schema(solve, "output_schema")
        /\ Schema(merge, "output_schema") = base.output_schema
        /\ self.input_model = self._branch_node.input_model
        /\ self.output_model = self._merge_node.output_model

C13_Witness ==
    /\ self.constructed
    /\ base.input_schema = [question |-> "str", context |-> "str"]
    /\ base.output_schema = [subtasks |-> "list[str]"]
    /\ Schema(merge, "input_schema") # Schema(branch, "input_schema")

\* C19: construction leaves the caller's configuration as it was, and the
\* three sub-node configurations are objects of their own, with output
\* schemas of their own: what is set on Branch's configuration shows neither
\* in the caller's configuration nor in the prompt or output schema of Solve
\* or Merge.
C19_ConstructionCopies ==
    self.constructed =>
        /\ self.config = "config"
        /\ ConfigValue(heap, "config") = base
        /\ Cardinality({"config", branch, solve, merge}) = 4
        /\ Cardinality({heap[c].output_schema : c \in {"config", branch, solve, merge}}) = 4
        /\ heap[branch].input_schema # heap["config"].input_schema
        /\ heap[branch].system_prompt = base.branch_prompt
        /\ heap[solve].system_prompt = base.solve_prompt
        /\ heap[merge].system_prompt = base.merge_prompt
        /\ Schema(solve, "output_schema") = [subtask_solutions |-> "list[str]"]
        /\ Schema(merge, "output_schema") = base.output_schema

C19_Witness ==
    /\ self.constructed
    /\ base.system_prompt = "You are a tutor."
    /\ base.branch_prompt = "Split."
    /\ base.output_schema = [answer |-> "str", score |-> "float"]
    /\ heap[branch].system_prompt # heap["config"].system_prompt

====
